---- MODULE Spec2Model ----
(***************************************************************************)
(* A model of the two concurrency utilities of package syncutil:          *)
(*   - Bundle (syncutil/bundle.go): operations run in goroutines under a  *)
(*     child context; the first non-nil error is stored once and cancels  *)
(*     the context; Join waits for the wait group and returns that error. *)
(*   - InvariantMutex (invariant_mutex.go): a sync.RWMutex whose four     *)
(*     entry points run a check function when -syncutil.check_invariants  *)
(*     is set.                                                            *)
(* Every goroutine is a process with a program counter; one action is one *)
(* atomic step of the Go code.                                            *)
(***************************************************************************)
EXTENDS Integers, FiniteSets, Sequences, TLC

VARIABLES
    \* ---- Bundle (syncutil/bundle.go) ----
    parent,        \* the context given to NewBundle: "nil", "live" or "cancelled"
    childDone,     \* b.context is cancelled (its Done channel is closed)
    cancelCalls,   \* how many times b.cancel() has been invoked by the bundle
    counter,       \* b.waitGroup's counter
    onceState,     \* b.errorOnce: "fresh", "running" (its function is executing), "done"
    firstError,    \* b.firstError
    errorWrites,   \* how many times b.firstError has been assigned
    added,         \* number of Add calls so far; operations 1..added exist
    pc,            \* pc[o]: where operation o's goroutine is
    result,        \* result[o]: what f returned for operation o
    ctxOnEntry,    \* ctxOnEntry[o]: the state of the context f was called with
    joinPc,        \* the caller of Join: "adding", "waiting", "woken", "returned"
    joinResult,    \* the value Join returned
    joinSnapshot,  \* the operations whose Add had returned when Join was called
    firstFailed,   \* the first error any operation's f returned, nil if none yet
    \* ---- the pipeline of the Bundle doc comment ----
    chanSent,      \* items handed from the producer to the consumer so far
    consumerReads, \* how many items the consumer reads before it fails
    \* ---- InvariantMutex (invariant_mutex.go) ----
    fCheckInvariants, \* the flag -syncutil.check_invariants
    checkIsNil,    \* the argument of NewInvariantMutex is nil
    ctorPc,        \* NewInvariantMutex: "start", "flag", "check", "return", "constructed", "panicked"
    ctorChecks,    \* how many times NewInvariantMutex has called check
    mu,            \* the sync.RWMutex inside the InvariantMutex, NoMutex before construction
    tpc,           \* tpc[t]: where thread t is
    callChecks,    \* callChecks[t]: check invocations in t's current (or last) call
    lastCall,      \* lastCall[t]: the entry point t called last
    invariantHolds,\* the invariant of the guarded data holds
    crashed        \* a panic inside check has taken the process down

bundleVars == <<parent, childDone, cancelCalls, counter, onceState, firstError,
                errorWrites, added, pc, result, ctxOnEntry, joinPc, joinResult,
                joinSnapshot, firstFailed>>
pipeVars == <<chanSent, consumerReads>>
mutexVars == <<fCheckInvariants, checkIsNil, ctorPc, ctorChecks, mu, tpc,
               callChecks, lastCall, invariantHolds, crashed>>
vars == <<bundleVars, pipeVars, mutexVars>>

----------------------------------------------------------------------------
\* Bounds of the model.
MaxOps == 3        \* operations one bundle is given
MaxItems == 2      \* items the pipeline's producer has to send
MaxThreads == 2    \* threads using one InvariantMutex

Ops == 1..MaxOps
Threads == 1..MaxThreads

\* Error values. Nil is Go's nil error; NoResult marks a function that has
\* not returned yet.
Nil == "nil"
NoResult == "none"
Canceled == "context canceled"
Errors == {"E1", "E2"}

----------------------------------------------------------------------------
\* Bundle

\* NewBundle: context.WithCancel(parent) gives a child that is already
\* cancelled when the parent is; a nil parent becomes context.Background().
NewBundle(p) ==
    /\ parent = p
    /\ childDone = (p = "cancelled")
    /\ cancelCalls = 0
    /\ counter = 0
    /\ onceState = "fresh"
    /\ firstError = Nil
    /\ errorWrites = 0
    /\ added = 0
    /\ pc = [o \in Ops |-> "unadded"]
    /\ result = [o \in Ops |-> NoResult]
    /\ ctxOnEntry = [o \in Ops |-> "none"]
    /\ joinPc = "adding"
    /\ joinResult = NoResult
    /\ joinSnapshot = {}
    /\ firstFailed = Nil

\* b.waitGroup.Add(1)
WaitGroupAddNone(c) == c
WaitGroupAdd(c) == c + 1

\* b.waitGroup.Done()
WaitGroupDone(c) == c - 1

\* The context handed to f: b.context.
OpContextDoneParent == parent = "cancelled"
OpContextDone == childDone

\* errorOnce.Do runs its function only for the first caller.
OnceMayEnterAlways(s) == s # "running"
OnceMayEnter(s) == s = "fresh"

\* b.cancel(): the child context is cancelled afterwards.
CancelFuncNoop(done) == done
CancelFunc(done) == TRUE

\* return b.firstError
JoinValueCtxErr == IF childDone /\ firstError = Nil THEN Canceled ELSE firstError
JoinValue == firstError

\* Add, up to the go statement: the counter is incremented, then the
\* goroutine is created.
Spawn ==
    /\ counter' = WaitGroupAdd(counter)
    /\ added' = added + 1
    /\ pc' = [pc EXCEPT ![added + 1] = "spawned"]

\* Add called by the goroutine that will call Join.
Add(limit) ==
    /\ joinPc = "adding"
    /\ added < limit
    /\ Spawn
    /\ UNCHANGED <<parent, childDone, cancelCalls, onceState, firstError, errorWrites,
                   result, ctxOnEntry, joinPc, joinResult, joinSnapshot>>
    /\ UNCHANGED <<firstFailed, pipeVars, mutexVars>>

\* Add called by a running operation of the bundle.
OpAdd(p) ==
    /\ pc[p] = "running"
    /\ added < MaxOps
    /\ Spawn
    /\ UNCHANGED <<parent, childDone, cancelCalls, onceState, firstError, errorWrites,
                   result, ctxOnEntry, joinPc, joinResult, joinSnapshot>>
    /\ UNCHANGED <<firstFailed, pipeVars, mutexVars>>

\* The goroutine starts: err := f(b.context) is entered.
StartOp(o) ==
    /\ pc[o] = "spawned"
    /\ pc' = [pc EXCEPT ![o] = "running"]
    /\ ctxOnEntry' = [ctxOnEntry EXCEPT ![o] = IF OpContextDone THEN "cancelled" ELSE "live"]
    /\ UNCHANGED <<parent, childDone, cancelCalls, counter, onceState, firstError,
                   errorWrites, added, result, joinPc, joinResult, joinSnapshot>>
    /\ UNCHANGED <<firstFailed, pipeVars, mutexVars>>

\* f returns e.
FuncReturns(o, e) ==
    /\ pc' = [pc EXCEPT ![o] = "returned"]
    /\ result' = [result EXCEPT ![o] = e]
    /\ firstFailed' = IF firstFailed = Nil THEN e ELSE firstFailed
    /\ UNCHANGED <<parent, childDone, cancelCalls, counter, onceState, firstError,
                   errorWrites, added, ctxOnEntry, joinPc, joinResult, joinSnapshot>>

\* An arbitrary operation: it returns nil or an error whenever it likes,
\* whether or not its context is cancelled.
OpReturn(o, e) ==
    /\ pc[o] = "running"
    /\ FuncReturns(o, e)
    /\ UNCHANGED <<pipeVars, mutexVars>>

\* A goroutine without the deferred Done: the early return skips it.
ReturnNilNoDone(o) ==
    /\ pc[o] = "returned"
    /\ result[o] = Nil
    /\ pc' = [pc EXCEPT ![o] = "finished"]
    /\ UNCHANGED <<parent, childDone, cancelCalls, counter, onceState, firstError,
                   errorWrites, added, result, ctxOnEntry, joinPc, joinResult, joinSnapshot>>
    /\ UNCHANGED <<firstFailed, pipeVars, mutexVars>>

\* if err == nil { return }
ReturnNil(o) ==
    /\ pc[o] = "returned"
    /\ result[o] = Nil
    /\ pc' = [pc EXCEPT ![o] = "deferred"]
    /\ UNCHANGED <<parent, childDone, cancelCalls, counter, onceState, firstError,
                   errorWrites, added, result, ctxOnEntry, joinPc, joinResult, joinSnapshot>>
    /\ UNCHANGED <<firstFailed, pipeVars, mutexVars>>

\* A mis-ordered first-error function: b.cancel() before b.firstError = err.
OnceBeginCancelsFirst(o) ==
    /\ pc[o] = "returned"
    /\ result[o] # Nil
    /\ onceState = "fresh"
    /\ onceState' = "running"
    /\ childDone' = TRUE
    /\ pc' = [pc EXCEPT ![o] = "once_store"]
    /\ UNCHANGED <<parent, cancelCalls, counter, firstError,
                   errorWrites, added, result, ctxOnEntry, joinPc, joinResult, joinSnapshot>>
    /\ UNCHANGED <<firstFailed, pipeVars, mutexVars>>

\* b.errorOnce.Do(...): the first caller enters the function.
OnceBegin(o) ==
    /\ pc[o] = "returned"
    /\ result[o] # Nil
    /\ OnceMayEnter(onceState)
    /\ onceState' = "running"
    /\ pc' = [pc EXCEPT ![o] = "once_store"]
    /\ UNCHANGED <<parent, childDone, cancelCalls, counter, firstError,
                   errorWrites, added, result, ctxOnEntry, joinPc, joinResult, joinSnapshot>>
    /\ UNCHANGED <<firstFailed, pipeVars, mutexVars>>

\* b.cancel() called outside errorOnce.Do: every failing operation cancels.
OnceSkipCancels(o) ==
    /\ pc[o] = "returned"
    /\ result[o] # Nil
    /\ onceState = "done"
    /\ childDone' = TRUE
    /\ cancelCalls' = cancelCalls + 1
    /\ pc' = [pc EXCEPT ![o] = "deferred"]
    /\ UNCHANGED <<parent, counter, onceState, firstError,
                   errorWrites, added, result, ctxOnEntry, joinPc, joinResult, joinSnapshot>>
    /\ UNCHANGED <<firstFailed, pipeVars, mutexVars>>

\* b.errorOnce.Do(...): a later caller returns without running the function
\* (a caller arriving while the function runs waits until it has finished).
OnceSkip(o) ==
    /\ pc[o] = "returned"
    /\ result[o] # Nil
    /\ onceState = "done"
    /\ pc' = [pc EXCEPT ![o] = "deferred"]
    /\ UNCHANGED <<parent, childDone, cancelCalls, counter, onceState, firstError,
                   errorWrites, added, result, ctxOnEntry, joinPc, joinResult, joinSnapshot>>
    /\ UNCHANGED <<firstFailed, pipeVars, mutexVars>>

\* b.firstError = err
StoreError(o) ==
    /\ pc[o] = "once_store"
    /\ firstError' = result[o]
    /\ errorWrites' = errorWrites + 1
    /\ pc' = [pc EXCEPT ![o] = "once_cancel"]
    /\ UNCHANGED <<parent, childDone, cancelCalls, counter, onceState,
                   added, result, ctxOnEntry, joinPc, joinResult, joinSnapshot>>
    /\ UNCHANGED <<firstFailed, pipeVars, mutexVars>>

\* b.cancel()
Cancel(o) ==
    /\ pc[o] = "once_cancel"
    /\ childDone' = CancelFunc(childDone)
    /\ cancelCalls' = cancelCalls + 1
    /\ pc' = [pc EXCEPT ![o] = "once_exit"]
    /\ UNCHANGED <<parent, counter, onceState, firstError, errorWrites,
                   added, result, ctxOnEntry, joinPc, joinResult, joinSnapshot>>
    /\ UNCHANGED <<firstFailed, pipeVars, mutexVars>>

\* The function given to errorOnce.Do returns: the Once is done.
OnceExit(o) ==
    /\ pc[o] = "once_exit"
    /\ onceState' = "done"
    /\ pc' = [pc EXCEPT ![o] = "deferred"]
    /\ UNCHANGED <<parent, childDone, cancelCalls, counter, firstError, errorWrites,
                   added, result, ctxOnEntry, joinPc, joinResult, joinSnapshot>>
    /\ UNCHANGED <<firstFailed, pipeVars, mutexVars>>

\* defer b.waitGroup.Done()
Done(o) ==
    /\ pc[o] = "deferred"
    /\ counter' = WaitGroupDone(counter)
    /\ pc' = [pc EXCEPT ![o] = "finished"]
    /\ UNCHANGED <<parent, childDone, cancelCalls, onceState, firstError, errorWrites,
                   added, result, ctxOnEntry, joinPc, joinResult, joinSnapshot>>
    /\ UNCHANGED <<firstFailed, pipeVars, mutexVars>>

\* Join is called.
JoinCall ==
    /\ joinPc = "adding"
    /\ joinPc' = "waiting"
    /\ joinSnapshot' = 1..added
    /\ UNCHANGED <<parent, childDone, cancelCalls, counter, onceState, firstError,
                   errorWrites, added, pc, result, ctxOnEntry, joinResult>>
    /\ UNCHANGED <<firstFailed, pipeVars, mutexVars>>

\* A Join that waits only for the operations it knew when it was called.
JoinWakeSnapshotOnly ==
    /\ joinPc = "waiting"
    /\ \A o \in joinSnapshot : pc[o] = "finished"
    /\ joinPc' = "woken"
    /\ UNCHANGED <<parent, childDone, cancelCalls, counter, onceState, firstError,
                   errorWrites, added, pc, result, ctxOnEntry, joinResult, joinSnapshot>>
    /\ UNCHANGED <<firstFailed, pipeVars, mutexVars>>

\* b.waitGroup.Wait() returns: the counter is zero.
JoinWake ==
    /\ joinPc = "waiting"
    /\ counter = 0
    /\ joinPc' = "woken"
    /\ UNCHANGED <<parent, childDone, cancelCalls, counter, onceState, firstError,
                   errorWrites, added, pc, result, ctxOnEntry, joinResult, joinSnapshot>>
    /\ UNCHANGED <<firstFailed, pipeVars, mutexVars>>

\* A Join that releases the context when it returns.
JoinReturnCancelling ==
    /\ joinPc = "woken"
    /\ joinResult' = JoinValue
    /\ joinPc' = "returned"
    /\ childDone' = TRUE
    /\ UNCHANGED <<parent, cancelCalls, counter, onceState, firstError,
                   errorWrites, added, pc, result, ctxOnEntry, joinSnapshot>>
    /\ UNCHANGED <<firstFailed, pipeVars, mutexVars>>

\* return b.firstError
JoinReturn ==
    /\ joinPc = "woken"
    /\ joinResult' = JoinValue
    /\ joinPc' = "returned"
    /\ UNCHANGED <<parent, childDone, cancelCalls, counter, onceState, firstError,
                   errorWrites, added, pc, result, ctxOnEntry, joinSnapshot>>
    /\ UNCHANGED <<firstFailed, pipeVars, mutexVars>>

\* The owner of the parent context cancels it: the child made by
\* context.WithCancel(parent) is cancelled with it.
CancelParent ==
    /\ parent = "live"
    /\ parent' = "cancelled"
    /\ childDone' = TRUE
    /\ UNCHANGED <<cancelCalls, counter, onceState, firstError, errorWrites, added,
                   pc, result, ctxOnEntry, joinPc, joinResult, joinSnapshot>>
    /\ UNCHANGED <<firstFailed, pipeVars, mutexVars>>

\* No InvariantMutex has been constructed yet.
NoMutex == [exists |-> FALSE, pending |-> 0, writer |-> 0, readers |-> {}]

\* The mutex component at rest (specifications of the bundle leave it alone).
MutexIdle ==
    /\ fCheckInvariants = FALSE
    /\ checkIsNil = FALSE
    /\ ctorPc = "start"
    /\ ctorChecks = 0
    /\ mu = NoMutex
    /\ tpc = [t \in Threads |-> "idle"]
    /\ callChecks = [t \in Threads |-> 0]
    /\ lastCall = [t \in Threads |-> "none"]
    /\ invariantHolds = TRUE
    /\ crashed = FALSE

PipeIdle ==
    /\ chanSent = 0
    /\ consumerReads = 0

InitBundle ==
    /\ \E p \in {"nil", "live", "cancelled"} : NewBundle(p)
    /\ PipeIdle
    /\ MutexIdle

NextBundle ==
    \/ Add(MaxOps)
    \/ \E p \in Ops : OpAdd(p)
    \/ \E o \in Ops : StartOp(o)
    \/ \E o \in Ops : \E e \in {Nil} \cup Errors : OpReturn(o, e)
    \/ \E o \in Ops : ReturnNil(o)
    \/ \E o \in Ops : OnceBegin(o)
    \/ \E o \in Ops : OnceSkip(o)
    \/ \E o \in Ops : StoreError(o)
    \/ \E o \in Ops : Cancel(o)
    \/ \E o \in Ops : OnceExit(o)
    \/ \E o \in Ops : Done(o)
    \/ JoinCall
    \/ JoinWake
    \/ JoinReturn
    \/ CancelParent

SpecBundle == InitBundle /\ [][NextBundle]_vars

----------------------------------------------------------------------------
\* The pipeline of the Bundle doc comment: operation 1 (the producer) sends
\* MaxItems items on an unbuffered channel with a send that gives up when
\* its context is cancelled; operation 2 (the consumer) receives
\* consumerReads items and then returns an error.
Producer == 1
Consumer == 2

\* One item passes from the producer's send to the consumer's receive.
Transfer ==
    /\ pc[Producer] = "running"
    /\ pc[Consumer] = "running"
    /\ chanSent < MaxItems
    /\ chanSent < consumerReads
    /\ chanSent' = chanSent + 1
    /\ UNCHANGED <<bundleVars, consumerReads, mutexVars>>

\* The producer's select takes the <-ctx.Done() case: it returns ctx.Err().
ProducerCancelled ==
    /\ pc[Producer] = "running"
    /\ chanSent < MaxItems
    /\ childDone
    /\ FuncReturns(Producer, Canceled)
    /\ UNCHANGED <<pipeVars, mutexVars>>

\* The producer has sent everything.
ProducerFinished ==
    /\ pc[Producer] = "running"
    /\ chanSent = MaxItems
    /\ FuncReturns(Producer, Nil)
    /\ UNCHANGED <<pipeVars, mutexVars>>

\* The consumer has read its items and returns the error E1.
ConsumerFails ==
    /\ pc[Consumer] = "running"
    /\ chanSent = consumerReads
    /\ FuncReturns(Consumer, "E1")
    /\ UNCHANGED <<pipeVars, mutexVars>>

InitPipeline ==
    /\ NewBundle("nil")
    /\ chanSent = 0
    /\ consumerReads \in 0..MaxItems
    /\ MutexIdle

NextPipeline ==
    \/ Add(2)
    \/ \E o \in {Producer, Consumer} : StartOp(o)
    \/ Transfer
    \/ ProducerCancelled
    \/ ProducerFinished
    \/ ConsumerFails
    \/ \E o \in {Producer, Consumer} : ReturnNil(o)
    \/ \E o \in {Producer, Consumer} : OnceBegin(o)
    \/ \E o \in {Producer, Consumer} : OnceSkip(o)
    \/ \E o \in {Producer, Consumer} : StoreError(o)
    \/ \E o \in {Producer, Consumer} : Cancel(o)
    \/ \E o \in {Producer, Consumer} : OnceExit(o)
    \/ \E o \in {Producer, Consumer} : Done(o)
    \/ (added = 2 /\ JoinCall)
    \/ JoinWake
    \/ JoinReturn

\* Every goroutine that can take a step eventually takes it (the Go
\* scheduler runs every runnable goroutine), and the caller goes on to add
\* both operations and to call Join.
FairPipeline ==
    /\ WF_vars(Add(2))
    /\ WF_vars(added = 2 /\ JoinCall)
    /\ WF_vars(JoinWake)
    /\ WF_vars(JoinReturn)
    /\ WF_vars(Transfer)
    /\ WF_vars(ProducerCancelled)
    /\ WF_vars(ProducerFinished)
    /\ WF_vars(ConsumerFails)
    /\ \A o \in {Producer, Consumer} :
         /\ WF_vars(StartOp(o))
         /\ WF_vars(ReturnNil(o))
         /\ WF_vars(OnceBegin(o))
         /\ WF_vars(OnceSkip(o))
         /\ WF_vars(StoreError(o))
         /\ WF_vars(Cancel(o))
         /\ WF_vars(OnceExit(o))
         /\ WF_vars(Done(o))

SpecPipeline == InitPipeline /\ [][NextPipeline]_vars /\ FairPipeline

----------------------------------------------------------------------------
\* InvariantMutex

\* The zero sync.RWMutex of InvariantMutex{check: check}: nobody holds it.
\* pending is the writer that has announced itself (it holds rw.w and new
\* readers wait behind it), writer the thread holding the lock exclusively,
\* readers the threads holding it shared.
ZeroRWMutex == [exists |-> TRUE, pending |-> 0, writer |-> 0, readers |-> {}]

\* if check == nil { panic(...) }
CtorNilPanicsNever == FALSE
CtorNilPanics == checkIsNil

\* if *fCheckInvariants, in NewInvariantMutex
CtorCheckEnabled == fCheckInvariants

\* if *fCheckInvariants, in checkIfEnabled
CheckEnabledAlways == TRUE
CheckEnabledNever == FALSE
CheckEnabled == fCheckInvariants

\* Where a thread is while checkIfEnabled is about to run, and while check runs.
HookPcs == {"Lock_hook", "Unlock_hook", "RLock_hook", "RUnlock_hook"}
CheckPcs == {"Lock_check", "Unlock_check", "RLock_check", "RUnlock_check"}

\* The check call of each entry point's hook.
CheckPc(p) ==
    CASE p = "Lock_hook" -> "Lock_check"
      [] p = "Unlock_hook" -> "Unlock_check"
      [] p = "RLock_hook" -> "RLock_check"
      [] p = "RUnlock_hook" -> "RUnlock_check"

\* What follows checkIfEnabled in each entry point: Lock and RLock return,
\* Unlock and RUnlock go on to release the underlying lock.
AfterHook(p) ==
    CASE p \in {"Lock_hook", "Lock_check"} -> "locked"
      [] p \in {"Unlock_hook", "Unlock_check"} -> "Unlock_release"
      [] p \in {"RLock_hook", "RLock_check"} -> "rlocked"
      [] p \in {"RUnlock_hook", "RUnlock_check"} -> "RUnlock_release"

\* Where a thread is inside i.mu.Lock(): called by Lock itself, or by a Lock
\* that check calls on the same mutex while a hook runs it.
LockWaitPcs == {"Lock_wait", "check_Lock_wait"}
LockDrainPcs == {"Lock_drain", "check_Lock_drain"}
NestedPcs == {"check_Lock_wait", "check_Lock_drain", "check_Lock_hook"}

\* The steps of i.mu.Lock(): waiting for rw.w, waiting for the readers to
\* leave, returned to the checkIfEnabled of Lock.
LockDrainPc(p) == IF p = "Lock_wait" THEN "Lock_drain" ELSE "check_Lock_drain"
LockHookPc(p) == IF p = "Lock_drain" THEN "Lock_hook" ELSE "check_Lock_hook"

\* NewInvariantMutex: the nil test.
CtorNilTest ==
    /\ ctorPc = "start"
    /\ ctorPc' = IF CtorNilPanics THEN "panicked" ELSE "flag"
    /\ UNCHANGED <<fCheckInvariants, checkIsNil, ctorChecks, mu, tpc, callChecks,
                   lastCall, invariantHolds, crashed>>
    /\ UNCHANGED <<bundleVars, pipeVars>>

\* NewInvariantMutex: if *fCheckInvariants { check() } is entered.
CtorFlagTest ==
    /\ ctorPc = "flag"
    /\ IF CtorCheckEnabled
         THEN /\ ctorPc' = "check"
              /\ ctorChecks' = ctorChecks + 1
         ELSE /\ ctorPc' = "return"
              /\ UNCHANGED ctorChecks
    /\ UNCHANGED <<fCheckInvariants, checkIsNil, mu, tpc, callChecks,
                   lastCall, invariantHolds, crashed>>
    /\ UNCHANGED <<bundleVars, pipeVars>>

\* NewInvariantMutex: check() returns, the invariant holds.
CtorCheckReturns ==
    /\ ctorPc = "check"
    /\ invariantHolds
    /\ ctorPc' = "return"
    /\ UNCHANGED <<fCheckInvariants, checkIsNil, ctorChecks, mu, tpc, callChecks,
                   lastCall, invariantHolds, crashed>>
    /\ UNCHANGED <<bundleVars, pipeVars>>

\* NewInvariantMutex: check() panics, the invariant does not hold.
CtorCheckPanics ==
    /\ ctorPc = "check"
    /\ ~invariantHolds
    /\ ctorPc' = "panicked"
    /\ crashed' = TRUE
    /\ UNCHANGED <<fCheckInvariants, checkIsNil, ctorChecks, mu, tpc, callChecks,
                   lastCall, invariantHolds>>
    /\ UNCHANGED <<bundleVars, pipeVars>>

\* NewInvariantMutex: return InvariantMutex{check: check}.
CtorReturn ==
    /\ ctorPc = "return"
    /\ ctorPc' = "constructed"
    /\ mu' = ZeroRWMutex
    /\ UNCHANGED <<fCheckInvariants, checkIsNil, ctorChecks, tpc, callChecks,
                   lastCall, invariantHolds, crashed>>
    /\ UNCHANGED <<bundleVars, pipeVars>>

\* A thread can use the mutex once it exists and the process is alive.
Usable == ctorPc = "constructed" /\ ~crashed

\* Thread t enters the entry point `name` from tpc `from`.
Call(t, name, from, to) ==
    /\ Usable
    /\ tpc[t] = from
    /\ tpc' = [tpc EXCEPT ![t] = to]
    /\ lastCall' = [lastCall EXCEPT ![t] = name]
    /\ callChecks' = [callChecks EXCEPT ![t] = 0]

\* Lock is called: i.mu.Lock() comes first.
LockCall(t) ==
    /\ Call(t, "Lock", "idle", "Lock_wait")
    /\ UNCHANGED <<fCheckInvariants, checkIsNil, ctorPc, ctorChecks, mu,
                   invariantHolds, crashed>>
    /\ UNCHANGED <<bundleVars, pipeVars>>

\* i.mu.Lock(), first half: the writer takes rw.w and announces itself.
LockPending(t) ==
    /\ Usable
    /\ tpc[t] \in LockWaitPcs
    /\ mu.pending = 0
    /\ mu' = [mu EXCEPT !.pending = t]
    /\ tpc' = [tpc EXCEPT ![t] = LockDrainPc(tpc[t])]
    /\ UNCHANGED <<fCheckInvariants, checkIsNil, ctorPc, ctorChecks, callChecks,
                   lastCall, invariantHolds, crashed>>
    /\ UNCHANGED <<bundleVars, pipeVars>>

\* i.mu.Lock(), second half: the readers have left, the writer holds the lock.
LockAcquire(t) ==
    /\ Usable
    /\ tpc[t] \in LockDrainPcs
    /\ mu.readers = {}
    /\ mu' = [mu EXCEPT !.writer = t]
    /\ tpc' = [tpc EXCEPT ![t] = LockHookPc(tpc[t])]
    /\ UNCHANGED <<fCheckInvariants, checkIsNil, ctorPc, ctorChecks, callChecks,
                   lastCall, invariantHolds, crashed>>
    /\ UNCHANGED <<bundleVars, pipeVars>>

\* The writer changes the guarded data inside its critical section, breaking
\* or restoring the invariant.
Mutate(t) ==
    /\ Usable
    /\ tpc[t] = "locked"
    /\ invariantHolds' = ~invariantHolds
    /\ UNCHANGED <<fCheckInvariants, checkIsNil, ctorPc, ctorChecks, mu, tpc,
                   callChecks, lastCall, crashed>>
    /\ UNCHANGED <<bundleVars, pipeVars>>

\* A mis-ordered Unlock: i.mu.Unlock() before i.checkIfEnabled().
UnlockCallReleaseFirst(t) ==
    /\ Call(t, "Unlock", "locked", "Unlock_hook")
    /\ mu' = [mu EXCEPT !.writer = 0, !.pending = 0]
    /\ UNCHANGED <<fCheckInvariants, checkIsNil, ctorPc, ctorChecks,
                   invariantHolds, crashed>>
    /\ UNCHANGED <<bundleVars, pipeVars>>

\* Unlock is called: i.checkIfEnabled() comes first.
UnlockCall(t) ==
    /\ Call(t, "Unlock", "locked", "Unlock_hook")
    /\ UNCHANGED <<fCheckInvariants, checkIsNil, ctorPc, ctorChecks, mu,
                   invariantHolds, crashed>>
    /\ UNCHANGED <<bundleVars, pipeVars>>

\* i.mu.Unlock()
UnlockRelease(t) ==
    /\ Usable
    /\ tpc[t] = "Unlock_release"
    /\ mu.writer = t
    /\ mu' = [mu EXCEPT !.writer = 0, !.pending = 0]
    /\ tpc' = [tpc EXCEPT ![t] = "idle"]
    /\ UNCHANGED <<fCheckInvariants, checkIsNil, ctorPc, ctorChecks, callChecks,
                   lastCall, invariantHolds, crashed>>
    /\ UNCHANGED <<bundleVars, pipeVars>>

\* RLock is called: i.mu.RLock() comes first.
RLockCall(t) ==
    /\ Call(t, "RLock", "idle", "RLock_wait")
    /\ UNCHANGED <<fCheckInvariants, checkIsNil, ctorPc, ctorChecks, mu,
                   invariantHolds, crashed>>
    /\ UNCHANGED <<bundleVars, pipeVars>>

\* i.mu.RLock(): granted when no writer holds the lock or waits for it.
RLockAcquire(t) ==
    /\ Usable
    /\ tpc[t] = "RLock_wait"
    /\ mu.pending = 0
    /\ mu' = [mu EXCEPT !.readers = @ \cup {t}]
    /\ tpc' = [tpc EXCEPT ![t] = "RLock_hook"]
    /\ UNCHANGED <<fCheckInvariants, checkIsNil, ctorPc, ctorChecks, callChecks,
                   lastCall, invariantHolds, crashed>>
    /\ UNCHANGED <<bundleVars, pipeVars>>

\* RUnlock is called: i.checkIfEnabled() comes first.
RUnlockCall(t) ==
    /\ Call(t, "RUnlock", "rlocked", "RUnlock_hook")
    /\ UNCHANGED <<fCheckInvariants, checkIsNil, ctorPc, ctorChecks, mu,
                   invariantHolds, crashed>>
    /\ UNCHANGED <<bundleVars, pipeVars>>

\* i.mu.RUnlock()
RUnlockRelease(t) ==
    /\ Usable
    /\ tpc[t] = "RUnlock_release"
    /\ t \in mu.readers
    /\ mu' = [mu EXCEPT !.readers = @ \ {t}]
    /\ tpc' = [tpc EXCEPT ![t] = "idle"]
    /\ UNCHANGED <<fCheckInvariants, checkIsNil, ctorPc, ctorChecks, callChecks,
                   lastCall, invariantHolds, crashed>>
    /\ UNCHANGED <<bundleVars, pipeVars>>

\* checkIfEnabled: if *fCheckInvariants { i.check() } is entered, or skipped.
CheckIfEnabled(t) ==
    /\ Usable
    /\ tpc[t] \in HookPcs
    /\ IF CheckEnabled
         THEN /\ tpc' = [tpc EXCEPT ![t] = CheckPc(tpc[t])]
              /\ callChecks' = [callChecks EXCEPT ![t] = @ + 1]
         ELSE /\ tpc' = [tpc EXCEPT ![t] = AfterHook(tpc[t])]
              /\ UNCHANGED callChecks
    /\ UNCHANGED <<fCheckInvariants, checkIsNil, ctorPc, ctorChecks, mu,
                   lastCall, invariantHolds, crashed>>
    /\ UNCHANGED <<bundleVars, pipeVars>>

\* i.check() returns: the invariant holds.
CheckReturns(t) ==
    /\ Usable
    /\ tpc[t] \in CheckPcs
    /\ invariantHolds
    /\ tpc' = [tpc EXCEPT ![t] = AfterHook(tpc[t])]
    /\ UNCHANGED <<fCheckInvariants, checkIsNil, ctorPc, ctorChecks, mu, callChecks,
                   lastCall, invariantHolds, crashed>>
    /\ UNCHANGED <<bundleVars, pipeVars>>

\* i.check() panics: the invariant is violated, the process dies where it is.
CheckPanics(t) ==
    /\ Usable
    /\ tpc[t] \in CheckPcs
    /\ ~invariantHolds
    /\ crashed' = TRUE
    /\ UNCHANGED <<fCheckInvariants, checkIsNil, ctorPc, ctorChecks, mu, tpc, callChecks,
                   lastCall, invariantHolds>>
    /\ UNCHANGED <<bundleVars, pipeVars>>

\* i.check() calls Lock on the mutex whose hook is running it: the thread
\* enters i.mu.Lock() again, its outer call still in progress. (The check that
\* NewInvariantMutex runs has no mutex to lock yet.)
CheckCallsLock(t) ==
    /\ Usable
    /\ tpc[t] \in CheckPcs
    /\ tpc' = [tpc EXCEPT ![t] = "check_Lock_wait"]
    /\ UNCHANGED <<fCheckInvariants, checkIsNil, ctorPc, ctorChecks, mu, callChecks,
                   lastCall, invariantHolds, crashed>>
    /\ UNCHANGED <<bundleVars, pipeVars>>

InitMutex ==
    /\ NewBundle("nil")
    /\ PipeIdle
    /\ fCheckInvariants \in BOOLEAN
    /\ checkIsNil \in BOOLEAN
    /\ ctorPc = "start"
    /\ ctorChecks = 0
    /\ mu = NoMutex
    /\ tpc = [t \in Threads |-> "idle"]
    /\ callChecks = [t \in Threads |-> 0]
    /\ lastCall = [t \in Threads |-> "none"]
    /\ invariantHolds \in BOOLEAN
    /\ crashed = FALSE

NextMutex ==
    \/ CtorNilTest
    \/ CtorFlagTest
    \/ CtorCheckReturns
    \/ CtorCheckPanics
    \/ CtorReturn
    \/ \E t \in Threads : LockCall(t)
    \/ \E t \in Threads : LockPending(t)
    \/ \E t \in Threads : LockAcquire(t)
    \/ \E t \in Threads : Mutate(t)
    \/ \E t \in Threads : UnlockCall(t)
    \/ \E t \in Threads : UnlockRelease(t)
    \/ \E t \in Threads : RLockCall(t)
    \/ \E t \in Threads : RLockAcquire(t)
    \/ \E t \in Threads : RUnlockCall(t)
    \/ \E t \in Threads : RUnlockRelease(t)
    \/ \E t \in Threads : CheckIfEnabled(t)
    \/ \E t \in Threads : CheckReturns(t)
    \/ \E t \in Threads : CheckPanics(t)
    \/ \E t \in Threads : CheckCallsLock(t)

SpecMutex == InitMutex /\ [][NextMutex]_vars

----------------------------------------------------------------------------
\* Properties of Bundle (specification SpecBundle)

\* The failures the operations have returned so far.
Failures == {result[o] : o \in {x \in Ops : result[x] \notin {NoResult, Nil}}}

\* C1: the value Join returns is nil if and only if no operation returned a
\* failure; otherwise it is a failure value that one of the bundle's operations
\* returned. Join never returns a value no operation returned: a cancelled
\* parent alone does not make it return a failure.
JoinReturnsAnOperationsFailure ==
    joinPc = "returned" =>
        /\ (joinResult = Nil) <=> (Failures = {})
        /\ joinResult # Nil => joinResult \in Failures

\* Join has returned E2 although another operation failed with E1, a third
\* returned nil and the parent was cancelled.
JoinReturnsAnOperationsFailureWitness ==
    /\ joinPc = "returned"
    /\ joinResult = "E2"
    /\ parent = "cancelled"
    /\ \E o \in Ops : result[o] = "E1"
    /\ \E o \in Ops : result[o] = Nil

\* C2: Join does not return before every operation added before Join was
\* called has finished; while one of them is still unfinished Wait cannot
\* return, whether or not the context has been cancelled.
JoinWaitsForEveryOperation ==
    /\ joinPc \in {"woken", "returned"} => \A o \in joinSnapshot : pc[o] = "finished"
    /\ (joinPc = "waiting" /\ \E o \in joinSnapshot : pc[o] # "finished") => ~ENABLED JoinWake

\* Join has returned after two operations, one of which was started with a
\* cancelled context, ignored it and returned nil.
JoinWaitsForEveryOperationWitness ==
    /\ joinPc = "returned"
    /\ Cardinality(joinSnapshot) >= 2
    /\ \E o \in joinSnapshot : ctxOnEntry[o] = "cancelled" /\ result[o] = Nil

\* C3: when Join returns a failure, the bundle's context is cancelled at that
\* moment.
JoinFailureMeansCancelled ==
    (joinPc = "returned" /\ joinResult # Nil) => childDone

\* Join has returned a failure in a bundle made with a nil parent.
JoinFailureMeansCancelledWitness ==
    /\ joinPc = "returned"
    /\ joinResult \in Errors
    /\ parent = "nil"

\* What C4 says of one state: firstError has been assigned at most once, it
\* holds a failure some operation returned, and it is set once a failing
\* operation has passed errorOnce.Do.
FirstErrorSlotOK ==
    /\ errorWrites <= 1
    /\ firstError # Nil => firstError \in Failures
    /\ (\E o \in Ops : result[o] \notin {NoResult, Nil} /\ pc[o] \in {"deferred", "finished"})
           => firstError # Nil

\* C4: the first-error slot is written at most once and, once it holds a
\* failure, never changes; of several failures it keeps exactly one and the
\* others are discarded.
FirstErrorIsOneShot ==
    /\ []FirstErrorSlotOK
    /\ [][firstError # Nil => firstError' = firstError]_vars

\* Two operations have failed with different errors and both have finished.
FirstErrorIsOneShotWitness ==
    /\ \E o \in Ops : result[o] = "E1" /\ pc[o] = "finished"
    /\ \E o \in Ops : result[o] = "E2" /\ pc[o] = "finished"
    /\ firstError = "E2"

\* C5: once the bundle's context is cancelled it stays cancelled, operations
\* are still added and started, and every operation started afterwards is
\* entered with a cancelled context.
CancellationSeenByLaterWork ==
    /\ [](childDone => /\ \A o \in Ops : pc[o] = "spawned" => ENABLED StartOp(o)
                       /\ (joinPc = "adding" /\ added < MaxOps) => ENABLED Add(MaxOps))
    /\ [][childDone =>
            /\ childDone'
            /\ \A o \in Ops : (pc[o] = "spawned" /\ pc'[o] = "running")
                                 => ctxOnEntry'[o] = "cancelled"]_vars

\* An operation was started with a cancelled context in a bundle whose parent
\* is not cancelled: the cancellation came from the first failure.
CancellationSeenByLaterWorkWitness ==
    /\ parent # "cancelled"
    /\ firstError # Nil
    /\ \E o \in Ops : pc[o] = "running" /\ ctxOnEntry[o] = "cancelled"

\* C12: on a bundle whose Add was never called, Join returns nil without
\* blocking, whether the parent is nil, live or already cancelled.
JoinOfEmptyBundle ==
    added = 0 =>
        /\ counter = 0
        /\ joinPc = "waiting" => ENABLED JoinWake
        /\ joinPc = "woken" => ENABLED JoinReturn
        /\ joinPc = "returned" => joinResult = Nil

\* Join has returned on a bundle without operations whose parent was cancelled.
JoinOfEmptyBundleWitness ==
    /\ added = 0
    /\ joinPc = "returned"
    /\ parent = "cancelled"

\* C13: in a bundle made with a nil parent the context is cancelled only by
\* the b.cancel() of an operation that installed its failure: Add, operations
\* that return nil and Join leave it alone, so after a Join that returns nil
\* the context is still not cancelled.
NilParentCancelledOnlyByFailure ==
    /\ [](parent = "nil" =>
            /\ childDone => (firstError # Nil /\ cancelCalls >= 1)
            /\ (joinPc = "returned" /\ joinResult = Nil) => ~childDone)
    /\ [][(parent = "nil" /\ ~childDone /\ childDone')
             => \E o \in Ops : pc[o] = "once_cancel" /\ pc'[o] = "once_exit"]_vars

\* Join has returned nil in a bundle with a nil parent after two operations
\* returned nil.
NilParentCancelledOnlyByFailureWitness ==
    /\ parent = "nil"
    /\ joinPc = "returned"
    /\ joinResult = Nil
    /\ Cardinality({o \in Ops : pc[o] = "finished"}) >= 2

\* C14 as stated: if A's function returns E1 before B's function returns E2,
\* Join returns E1, and the context is already cancelled at the moment B's
\* function returns.
FirstReturnedFailureWins ==
    /\ [](joinPc = "returned" => joinResult = firstFailed)
    /\ [][\A b \in Ops : (firstFailed # Nil /\ pc[b] = "running" /\ pc'[b] = "returned"
                            /\ result'[b] # Nil) => childDone]_vars

\* C14, amended: if A's failure E1 has been installed and the context
\* cancelled (A has left errorOnce.Do) before B's function returns E2, then
\* the context is cancelled at the moment B's function returns, E2 is dropped
\* (B does not enter errorOnce.Do's function and the slot keeps E1) and Join
\* returns E1.
FirstInstalledFailureWins ==
    /\ [][\A b \in Ops : (onceState = "done" /\ pc[b] = "running" /\ pc'[b] = "returned"
                            /\ result'[b] # Nil) => (childDone /\ firstError # Nil)]_vars
    /\ [][\A b \in Ops : (onceState = "done" /\ pc[b] = "returned")
                            => pc'[b] \in {"returned", "deferred"}]_vars
    /\ [][firstError # Nil =>
            /\ firstError' = firstError
            /\ joinPc' = "returned" => joinResult' = firstError]_vars

\* Join has returned E1 in a bundle with a nil parent although an operation
\* that was started after the cancellation returned E2.
FirstInstalledFailureWinsWitness ==
    /\ parent = "nil"
    /\ joinPc = "returned"
    /\ joinResult = "E1"
    /\ \E b \in Ops : result[b] = "E2" /\ ctxOnEntry[b] = "cancelled"

\* C15: the bundle calls b.cancel() at most once, from the operation that won
\* errorOnce.Do, and only after that operation's error has been written to
\* b.firstError.
CancelOnceAfterStore ==
    /\ [](cancelCalls <= 1)
    /\ [](cancelCalls = 1 => (firstError # Nil /\ errorWrites = 1))
    /\ [][cancelCalls' # cancelCalls =>
            \E o \in Ops : /\ pc[o] = "once_cancel"
                           /\ pc'[o] = "once_exit"
                           /\ onceState = "running"
                           /\ firstError = result[o]
                           /\ firstError # Nil]_vars

\* Two operations have failed and finished; b.cancel() has been called once.
CancelOnceAfterStoreWitness ==
    /\ cancelCalls = 1
    /\ Cardinality({o \in Ops : result[o] \in Errors /\ pc[o] = "finished"}) >= 2

\* C16 as stated: if the context is seen cancelled at any point, Join returns
\* a failure.
CancelledMeansJoinFails ==
    (joinPc = "returned" /\ (childDone \/ \E o \in Ops : ctxOnEntry[o] = "cancelled"))
        => joinResult # Nil

\* C16, amended: if the context is seen cancelled while the parent context is
\* not cancelled, b.firstError already holds an error, it keeps it, and Join
\* returns it.
CancelledByBundleMeansJoinFails ==
    /\ []((childDone /\ parent # "cancelled") => firstError # Nil)
    /\ []((joinPc = "returned" /\ childDone /\ parent # "cancelled") => joinResult # Nil)
    /\ [][firstError # Nil => firstError' # Nil]_vars

\* Join has returned a failure under a live parent; an operation had been
\* started with the context already cancelled.
CancelledByBundleMeansJoinFailsWitness ==
    /\ parent = "live"
    /\ joinPc = "returned"
    /\ joinResult # Nil
    /\ \E o \in Ops : ctxOnEntry[o] = "cancelled"

\* The states of the bundle's state machine.
Open == firstError = Nil
Failing == firstError # Nil
Drained == counter = 0

\* C17 as stated: in every state in which an error is stored the context is
\* cancelled; a stored error is never cleared; Join returns only with the
\* counter at zero.
FailingMeansCancelled ==
    /\ [](Failing => childDone)
    /\ [][Failing => (Failing' /\ ~Open')]_vars
    /\ [][(joinPc # "returned" /\ joinPc' = "returned") => Drained]_vars

\* C17, amended: in every state in which an error is stored the context is
\* cancelled or the operation that stored the error is about to call
\* b.cancel(); a stored error is never cleared; Join returns only with the
\* counter at zero.
FailingMeansCancelledAfterCancel ==
    /\ [](Failing => (childDone \/ \E o \in Ops : pc[o] = "once_cancel"))
    /\ []((Failing /\ onceState = "done") => childDone)
    /\ [][Failing => (Failing' /\ ~Open')]_vars
    /\ [][(joinPc # "returned" /\ joinPc' = "returned") => Drained]_vars

\* An error is stored and the context is not yet cancelled, while another
\* operation is still running.
FailingMeansCancelledAfterCancelWitness ==
    /\ Failing
    /\ ~childDone
    /\ \E o \in Ops : pc[o] = "running"

\* The operations that have been added and have not finished.
Outstanding == {o \in Ops : pc[o] \notin {"unadded", "finished"}}

\* C19: the counter is never negative and equals the number of operations
\* added and not yet finished; an operation decrements it exactly once, after
\* its function has returned and, if it failed, after its failure has been
\* installed or dropped.
CounterCountsOutstanding ==
    /\ [](counter >= 0 /\ counter = Cardinality(Outstanding))
    /\ [][counter' < counter =>
            \E o \in Ops : /\ pc[o] = "deferred"
                           /\ pc'[o] = "finished"
                           /\ counter' = counter - 1
                           /\ result[o] # NoResult
                           /\ result[o] # Nil => (onceState = "done" /\ firstError # Nil)]_vars
    /\ [][\A o \in Ops : pc[o] = "finished" => pc'[o] = "finished"]_vars

\* One operation returned nil, one installed its failure and one had its
\* failure dropped; all three have finished.
CounterCountsOutstandingWitness ==
    /\ counter = 0
    /\ \A o \in Ops : pc[o] = "finished"
    /\ \E o \in Ops : result[o] = Nil
    /\ \E o \in Ops : result[o] = "E1"
    /\ \E o \in Ops : result[o] = "E2"

\* The operations added by a running operation after Join was called.
AddedDuringJoin == IF joinPc = "adding" THEN {} ELSE (1..added) \ joinSnapshot

\* C20: a running operation may call Add, also while Join is waiting; Join
\* does not return before the operations added this way have finished.
JoinWaitsForLateAdditions ==
    /\ \A p \in Ops : (pc[p] = "running" /\ added < MaxOps) => ENABLED OpAdd(p)
    /\ joinPc \in {"woken", "returned"} => \A o \in AddedDuringJoin : pc[o] = "finished"
    /\ joinPc = "returned" => (Outstanding = {} /\ joinResult \in {Nil} \cup Failures)

\* Join has returned the failure of an operation that was added by a running
\* operation while Join was waiting; no other operation failed.
JoinWaitsForLateAdditionsWitness ==
    /\ joinPc = "returned"
    /\ joinResult = "E1"
    /\ \E o \in AddedDuringJoin :
          /\ result[o] = "E1"
          /\ \A x \in Ops \ {o} : result[x] # "E1" /\ result[x] # "E2"

----------------------------------------------------------------------------
\* Properties of the pipeline (specification SpecPipeline)

\* C6: in the pipeline, under fair scheduling, the producer eventually exits
\* and Join eventually returns the consumer's error E1: the producer does not
\* stay blocked on a send nobody reads.
PipelineUnblocks ==
    /\ <>(pc[Producer] = "finished")
    /\ <>(joinPc = "returned" /\ joinResult = "E1")

\* Join has returned although the producer had items left: it gave up its
\* send because its context was cancelled.
PipelineUnblocksWitness ==
    /\ joinPc = "returned"
    /\ result[Producer] = Canceled
    /\ chanSent < MaxItems

----------------------------------------------------------------------------
\* Properties of InvariantMutex (specification SpecMutex)

WriterCheckPcs == {"Lock_check", "Unlock_check"}
ReaderCheckPcs == {"RLock_check", "RUnlock_check"}

\* C7: check runs from Lock or Unlock only while the calling thread holds the
\* lock exclusively, and from RLock or RUnlock only while it holds it shared.
\* So a writer's check overlaps no other thread's critical section or check,
\* and a reader's check overlaps no writer's critical section.
CheckRunsUnderTheLock ==
    \A t \in Threads :
        /\ tpc[t] \in WriterCheckPcs =>
              /\ mu.writer = t
              /\ mu.readers = {}
              /\ \A u \in Threads \ {t} : tpc[u] \notin ({"locked", "rlocked"} \cup CheckPcs)
        /\ tpc[t] \in ReaderCheckPcs =>
              /\ t \in mu.readers
              /\ mu.writer = 0
              /\ \A u \in Threads \ {t} : tpc[u] \notin ({"locked"} \cup WriterCheckPcs)

\* A writer's Unlock is running check while another thread waits in Lock.
CheckRunsUnderTheLockWitness ==
    /\ fCheckInvariants
    /\ \E t \in Threads : \E u \in Threads :
          /\ tpc[t] = "Unlock_check"
          /\ tpc[u] = "Lock_wait"

\* C8: with the flag set, every completed call of Lock, Unlock, RLock or
\* RUnlock has run check exactly once.
EveryCallChecksOnce ==
    fCheckInvariants =>
        \A t \in Threads :
            /\ callChecks[t] <= 1
            /\ tpc[t] \in {"locked", "rlocked"} => callChecks[t] = 1
            /\ (tpc[t] = "idle" /\ lastCall[t] # "none") => callChecks[t] = 1

\* With the flag set, one thread has completed Lock and Unlock and another
\* holds the lock shared.
EveryCallChecksOnceWitness ==
    /\ fCheckInvariants
    /\ \E t \in Threads : \E u \in Threads :
          /\ tpc[t] = "idle" /\ lastCall[t] = "Unlock"
          /\ tpc[u] = "rlocked"

\* C9: with the flag unset, check is never invoked, neither by
\* NewInvariantMutex nor by any Lock, Unlock, RLock or RUnlock.
NoCheckWhenDisabled ==
    ~fCheckInvariants =>
        /\ ctorChecks = 0
        /\ ctorPc # "check"
        /\ \A t \in Threads : callChecks[t] = 0 /\ tpc[t] \notin CheckPcs

\* With the flag unset, one thread has completed Lock and Unlock and another
\* RLock and RUnlock.
NoCheckWhenDisabledWitness ==
    /\ ~fCheckInvariants
    /\ \E t \in Threads : \E u \in Threads :
          /\ tpc[t] = "idle" /\ lastCall[t] = "Unlock"
          /\ tpc[u] = "idle" /\ lastCall[u] = "RUnlock"

\* C10: NewInvariantMutex with a nil check panics without returning a mutex
\* and without running anything, whatever the flag; with a non-nil check it
\* has run check exactly once when it returns if the flag is set, and not at
\* all if it is not; the mutex it returns is unlocked.
NewInvariantMutexContract ==
    /\ checkIsNil =>
          /\ ctorPc \in {"start", "panicked"}
          /\ ctorChecks = 0
          /\ ~mu.exists
          /\ \A t \in Threads : lastCall[t] = "none"
    /\ ctorPc = "constructed" =>
          /\ ~checkIsNil
          /\ ctorChecks = (IF fCheckInvariants THEN 1 ELSE 0)
          /\ mu.exists
          /\ (\A t \in Threads : lastCall[t] = "none") => mu = ZeroRWMutex
    /\ ctorPc \in {"start", "flag", "check", "return", "panicked"} => ~mu.exists

\* NewInvariantMutex has just returned, with the flag set and a check that holds.
NewInvariantMutexContractWitness ==
    /\ ctorPc = "constructed"
    /\ fCheckInvariants
    /\ ctorChecks = 1
    /\ \A t \in Threads : lastCall[t] = "none"

\* Where a thread is while it neither holds the lock nor is being granted it.
OutsidePcs == {"idle", "Lock_wait", "Lock_drain", "RLock_wait"}

\* What C11 says of one state, with the flag set: while the invariant is
\* violated a writer holds the lock and every other thread is outside it, and
\* a process that died in check died in the Unlock of the writer, which still
\* holds the lock.
BrokenInvariantLockHeld ==
    (fCheckInvariants /\ mu.exists) =>
        /\ ~invariantHolds =>
              /\ mu.writer \in Threads
              /\ mu.readers = {}
              /\ \A u \in Threads \ {mu.writer} : tpc[u] \in OutsidePcs
        /\ crashed =>
              /\ ~invariantHolds
              /\ \E t \in Threads : tpc[t] = "Unlock_check" /\ mu.writer = t

\* C11: with the flag set and a check that panics when the invariant is false,
\* a writer that breaks the invariant in its critical section panics in the
\* check of its Unlock before the lock is released: the lock stays held and no
\* other thread acquires it, shared or exclusive, while the invariant is
\* violated.
BrokenInvariantKeepsTheLock ==
    /\ []BrokenInvariantLockHeld
    /\ [][(fCheckInvariants /\ mu.exists /\ ~invariantHolds /\ ~invariantHolds')
             => (mu'.writer = mu.writer /\ mu'.readers = mu.readers)]_vars

\* A writer broke the invariant, its Unlock panicked inside check, and another
\* thread is left waiting for the lock.
BrokenInvariantKeepsTheLockWitness ==
    /\ fCheckInvariants
    /\ crashed
    /\ \E t \in Threads : \E u \in Threads :
          /\ tpc[t] = "Unlock_check" /\ mu.writer = t
          /\ tpc[u] \in {"Lock_wait", "RLock_wait"}

\* C18: with the flag set, a check that calls Lock on the same mutex
\* deadlocks: the inner i.mu.Lock() is never granted, so the Lock, Unlock,
\* RLock or RUnlock whose hook runs that check never returns, and the lock
\* that call holds is never released.
RelockingCheckDeadlocks ==
    /\ [](\A t \in Threads :
            /\ tpc[t] # "check_Lock_hook"
            /\ tpc[t] \in NestedPcs => (fCheckInvariants /\ (mu.writer = t \/ t \in mu.readers))
            /\ tpc[t] = "check_Lock_drain" => ~ENABLED LockAcquire(t)
            /\ (tpc[t] = "check_Lock_wait" /\ mu.writer = t) => ~ENABLED LockPending(t))
    /\ [][\A t \in Threads : tpc[t] \in NestedPcs =>
            /\ tpc'[t] \in NestedPcs
            /\ mu.writer = t => mu'.writer = t
            /\ t \in mu.readers => t \in mu'.readers]_vars

\* The check run by a reader's hook has called Lock and waits for the readers
\* to leave, itself among them; another thread is stuck behind it in RLock.
RelockingCheckDeadlocksWitness ==
    \E t \in Threads : \E u \in Threads :
        /\ tpc[t] = "check_Lock_drain"
        /\ t \in mu.readers
        /\ tpc[u] = "RLock_wait"

====
